---- MODULE Spec2Model ----
(***************************************************************************)
(* A model of analyze_api_logs (src/function.py) and of its helpers        *)
(* (src/utils.py, src/config.py).                                          *)
(*                                                                         *)
(* One call of analyze_api_logs is the behaviour: the caller's list `logs` *)
(* is chosen by Init, the validation loop builds `valid_logs`, and the     *)
(* call ends by returning a report (pc = "returned") or by letting a       *)
(* TypeError escape (pc = "raised").                                       *)
(*                                                                         *)
(* Python values are the records [ty, i, s]:                               *)
(*   ty = "int"     the int i                                              *)
(*   ty = "str"     the str s                                              *)
(*   ty = "none"    None                                                   *)
(*   ty = "isostr"  the str "2025-01-15T<HH:MM>:00<s>", HH:MM being the    *)
(*                  wall-clock minute i of that day and s the text after   *)
(*                  the seconds: "", "Z", "+00:00" or "+02:00"             *)
(*   ty = "dt"      the datetime of wall-clock minute i whose isoformat()  *)
(*                  ends in s: "" (naive), "+00:00" or "+02:00"            *)
(* A dict with string keys is a function on its keys; a dict keyed by      *)
(* values in insertion order (group_by_endpoint, Counter) is a sequence    *)
(* of [k, v] records; a list is a sequence.                                *)
(*                                                                         *)
(* Float-valued presentation fields of the report (the round(.., 2)        *)
(* averages and rates, potential_cache_hit_rate, the cost and              *)
(* performance-improvement estimates, normal_rate) are left out of the     *)
(* modelled report. The comparisons of a severity, a share or a rate with  *)
(* its bound are made on the integers the float quotient was computed     *)
(* from, where the two agree; the request-spike bound, where they do not,  *)
(* is computed in binary64 arithmetic, bit by bit.                         *)
(***************************************************************************)
EXTENDS Integers, Sequences, FiniteSets, TLC

VARIABLES logs, valid_logs, report, pc

vars == <<logs, valid_logs, report, pc>>

-----------------------------------------------------------------------------
(* Python values *)

PyInt(n) == [ty |-> "int", i |-> n, s |-> ""]

PyStr(x) == [ty |-> "str", i |-> 0, s |-> x]

PyNone == [ty |-> "none", i |-> 0, s |-> ""]

IsoText(wall, sfx) == [ty |-> "isostr", i |-> wall, s |-> sfx]

DateTime(wall, tz) == [ty |-> "dt", i |-> wall, s |-> tz]

\* isinstance(v, (int, float))
IsNumber(v) == v.ty \in {"int", "float", "bool"}

\* utcoffset() of an aware datetime, in minutes
UtcOffsetMinutes(dt) == IF dt.s = "+02:00" THEN 120 ELSE 0

IsAware(dt) == dt.s # ""

\* the instant an aware datetime denotes; the wall clock of a naive one
Instant(dt) == IF IsAware(dt) THEN dt.i - UtcOffsetMinutes(dt) ELSE dt.i

\* a < b between datetimes; defined when both are aware or both naive
DtLess(a, b) == Instant(a) < Instant(b)

-----------------------------------------------------------------------------
(* src/config.py *)

REQUIRED_FIELDS ==
    <<"timestamp", "endpoint", "method", "response_time_ms", "status_code",
      "user_id", "request_size_bytes", "response_size_bytes">>

RT_MEDIUM == 500
RT_HIGH == 1000
RT_CRITICAL == 2000
SLOW_ENDPOINT_THRESHOLD_MS == 500
ER_MEDIUM == 5
ER_HIGH == 10
ER_CRITICAL == 15
RESPONSE_SPIKE_MULTIPLIER == 2
REQUEST_SPIKE_WINDOW_MINUTES == 5
REQUEST_SPIKE_RATE_MULTIPLIER == 3
ERROR_CLUSTER_WINDOW_MINUTES == 5
ERROR_CLUSTER_THRESHOLD == 10
\* SUSPICIOUS_TRAFFIC_THRESHOLD = 0.50, in percent
SUSPICIOUS_TRAFFIC_THRESHOLD_PCT == 50
CACHE_MIN_REQUESTS == 100
\* CACHE_MIN_GET_RATIO = 0.80, in percent
CACHE_MIN_GET_RATIO_PCT == 80
CACHE_MAX_ERROR_RATE == 2
\* CACHE_HIT_RATE_ASSUMPTION = 0.90, in percent
CACHE_HIT_RATE_ASSUMPTION_PCT == 90
CACHE_RECOMMENDED_TTL_MINUTES == 15
\* the literal of "if err_rate_pct > 5" in the recommendations
ERROR_ALERT_RATE == 5
\* most_common(5) of the top users
TOP_USERS == 5

-----------------------------------------------------------------------------
(* src/utils.py *)

\* ts.replace("Z", "+00:00") then datetime.fromisoformat; None on any exception
parse_iso_timestamp(ts) ==
    IF ts.ty # "isostr"
    THEN PyNone
    ELSE DateTime(ts.i, IF ts.s = "Z" THEN "+00:00" ELSE ts.s)

Range(seq) == {seq[n] : n \in DOMAIN seq}

numeric_fields == <<"response_time_ms", "request_size_bytes", "response_size_bytes">>

is_valid_log_DropsSignCheck(log) ==
    /\ \A field \in Range(REQUIRED_FIELDS) : field \in DOMAIN log
    /\ parse_iso_timestamp(log["timestamp"]) # PyNone
    /\ \A field \in Range(numeric_fields) : IsNumber(log[field])

is_valid_log_ChecksMethod(log) ==
    /\ \A field \in Range(REQUIRED_FIELDS) : field \in DOMAIN log
    /\ parse_iso_timestamp(log["timestamp"]) # PyNone
    /\ \A field \in Range(numeric_fields) :
          IsNumber(log[field]) /\ ~(log[field].i < 0)
    /\ log["method"] \in {PyStr("GET"), PyStr("POST")}

is_valid_log(log) ==
    /\ \A field \in Range(REQUIRED_FIELDS) : field \in DOMAIN log
    /\ parse_iso_timestamp(log["timestamp"]) # PyNone
    /\ \A field \in Range(numeric_fields) :
          IsNumber(log[field]) /\ ~(log[field].i < 0)

\* a float quotient num/den of two integers, den > 0, kept exact
Ratio(num, den) == [num |-> num, den |-> den]

RatioGe(q, n) == q.num >= n * q.den

RatioGt(q, n) == q.num > n * q.den

RatioLt(q, n) == q.num < n * q.den

RatioLe(q, n) == q.num <= n * q.den

\* numerator / denominator if denominator else 0
safe_divide(numerator, denominator) ==
    IF denominator # 0 THEN Ratio(numerator, denominator) ELSE Ratio(0, 1)

\* safe_divide(errors, count) * 100
Percent(q) == Ratio(100 * q.num, q.den)

classify_response_time_Strict(ms) ==
    IF RatioGt(ms, RT_CRITICAL) THEN "critical"
    ELSE IF RatioGt(ms, RT_HIGH) THEN "high"
    ELSE IF RatioGt(ms, RT_MEDIUM) THEN "medium"
    ELSE ""

classify_response_time(ms) ==
    IF RatioGe(ms, RT_CRITICAL) THEN "critical"
    ELSE IF RatioGe(ms, RT_HIGH) THEN "high"
    ELSE IF RatioGe(ms, RT_MEDIUM) THEN "medium"
    ELSE ""

classify_error_rate(rate) ==
    IF RatioGe(rate, ER_CRITICAL) THEN "critical"
    ELSE IF RatioGe(rate, ER_HIGH) THEN "high"
    ELSE IF RatioGe(rate, ER_MEDIUM) THEN "medium"
    ELSE ""

\* a for loop over the indices lo..hi, in order: acc = Step(acc, n) for each n
\* (the first half is computed before the second starts: {left} # {} is true
\* and only makes the evaluation eager)
RECURSIVE Loop(_, _, _, _)
Loop(Step(_, _), acc, lo, hi) ==
    IF lo > hi THEN acc
    ELSE IF lo = hi THEN Step(acc, lo)
    ELSE LET mid == (lo + hi) \div 2
             left == Loop(Step, acc, lo, mid)
         IN IF {left} # {} THEN Loop(Step, left, mid + 1, hi) ELSE left

\* the position of key k in an insertion-ordered dict d, 0 when absent
KeyIndex(d, k) ==
    IF \E n \in DOMAIN d : d[n].k = k
    THEN CHOOSE n \in DOMAIN d : d[n].k = k
    ELSE 0

\* result.setdefault(key, []).append(item)
SetDefaultAppend(d, key, item) ==
    LET n == KeyIndex(d, key) IN
    IF n = 0
    THEN Append(d, [k |-> key, v |-> <<item>>])
    ELSE [d EXCEPT ![n].v = Append(@, item)]

\* endpoint -> list(logs), keys in order of first occurrence
group_by_endpoint(ls) ==
    Loop(LAMBDA result, n : SetDefaultAppend(result, ls[n]["endpoint"], ls[n]),
         <<>>, 1, Len(ls))

\* c[x] += 1
CounterAdd(c, x) ==
    LET at == KeyIndex(c, x) IN
    IF at = 0
    THEN Append(c, [k |-> x, v |-> 1])
    ELSE [c EXCEPT ![at].v = @ + 1]

\* Counter(xs): value -> count, keys in order of first occurrence
Counter(xs) == Loop(LAMBDA c, n : CounterAdd(c, xs[n]), <<>>, 1, Len(xs))

\* the number of entries of c that come before entry n in
\* sorted(c.items(), key=count, reverse=True), a stable sort
RankBefore(c, n) ==
    Cardinality({m \in DOMAIN c :
        \/ c[m].v > c[n].v
        \/ c[m].v = c[n].v /\ m < n})

most_common_LastOnTie(c, top) ==
    LET before(n) == Cardinality({m \in DOMAIN c :
                        \/ c[m].v > c[n].v
                        \/ c[m].v = c[n].v /\ m > n})
        size == IF Len(c) < top THEN Len(c) ELSE top
    IN [r \in 1..size |-> c[CHOOSE n \in DOMAIN c : before(n) = r - 1]]

\* Counter.most_common(top): the top entries by count, ties in insertion order
most_common(c, top) ==
    LET size == IF Len(c) < top THEN Len(c) ELSE top
    IN [r \in 1..size |-> c[CHOOSE n \in DOMAIN c : RankBefore(c, n) = r - 1]]

window_logs_by_minutes_Closed(times, window_minutes) ==
    LET at == [n \in DOMAIN times |-> Instant(times[n])] IN
    [n \in DOMAIN times |->
        [start |-> times[n],
         count |-> Cardinality({m \in DOMAIN times :
                      at[n] <= at[m] /\ at[m] <= at[n] + window_minutes})]]

\* (start, count) for every start in times: count of t with start <= t < start + window
window_logs_by_minutes(times, window_minutes) ==
    LET at == [n \in DOMAIN times |-> Instant(times[n])] IN
    [n \in DOMAIN times |->
        [start |-> times[n],
         count |-> Cardinality({m \in DOMAIN times :
                      at[n] <= at[m] /\ at[m] < at[n] + window_minutes})]]

-----------------------------------------------------------------------------
(* src/function.py *)

\* dt.isoformat().replace("+00:00", "Z")
_iso_z(dt) == IsoText(dt.i, IF dt.s = "+00:00" THEN "Z" ELSE dt.s)

\* the report of analyze_api_logs([])
CanonicalEmptyReport ==
    [summary |-> <<>>,
     endpoint_stats |-> <<>>,
     performance_issues |-> <<>>,
     size_insights |-> <<>>,
     hourly_distribution |-> <<>>,
     top_users_by_requests |-> <<>>,
     recommendations |-> <<>>,
     anomalies |-> [response_time_spikes |-> <<>>,
                    server_errors |-> <<>>,
                    request_spikes |-> <<>>,
                    error_clusters |-> <<>>,
                    suspicious_endpoints |-> <<>>,
                    suspicious_users |-> <<>>],
     caching_opportunities |-> <<>>,
     total_potential_savings |-> <<>>]

\* d[key] = value on a dict with string keys
SetItem(d, key, value) ==
    [x \in DOMAIN d \cup {key} |-> IF x = key THEN value ELSE d[x]]

AnnotateInPlace(raw, ts) ==
    [entry |-> SetItem(raw, "_ts", ts), raw |-> SetItem(raw, "_ts", ts)]

\* entry = dict(raw); entry["_ts"] = ts: the entry, and the caller's record after it
Annotate(raw, ts) ==
    [entry |-> SetItem(raw, "_ts", ts), raw |-> raw]

\* one turn of the loop over logs, on record n: the record is skipped, or its
\* annotated copy is appended to valid_logs
ValidLogsStep(acc, n) ==
    LET raw == acc.logs[n] IN
    IF ~is_valid_log(raw) THEN acc
    ELSE LET ts == parse_iso_timestamp(raw["timestamp"]) IN
         IF ts = PyNone THEN acc
         ELSE LET a == Annotate(raw, ts) IN
              [valid_logs |-> Append(acc.valid_logs, a.entry),
               logs |-> [acc.logs EXCEPT ![n] = a.raw]]

\* the loop over logs: what it leaves in valid_logs and in the caller's list
ValidLogsLoop(ls) == Loop(ValidLogsStep, [valid_logs |-> <<>>, logs |-> ls], 1, Len(ls))

\* max(xs, key=...) and min(xs, key=...) on the keys: the index of the first
\* element that is maximal, minimal
FirstMaxIndex(keys) ==
    LET top == CHOOSE x \in Range(keys) : \A y \in Range(keys) : y <= x IN
    CHOOSE n \in DOMAIN keys : keys[n] = top /\ \A m \in 1..(n - 1) : keys[m] # top

FirstMinIndex(keys) ==
    LET low == CHOOSE x \in Range(keys) : \A y \in Range(keys) : y >= x IN
    CHOOSE n \in DOMAIN keys : keys[n] = low /\ \A m \in 1..(n - 1) : keys[m] # low

Field(ls, key) == [n \in DOMAIN ls |-> ls[n][key]]

IntField(ls, key) == [n \in DOMAIN ls |-> ls[n][key].i]

Sum(xs) == Loop(LAMBDA acc, n : acc + xs[n], 0, 1, Len(xs))

Count(ls, Test(_)) == Cardinality({n \in DOMAIN ls : Test(ls[n])})

IsError(l) == l["status_code"].i >= 400

IsGet(l) == l["method"] = PyStr("GET")

\* the comparisons of the analysis that raise TypeError: status_code >= 400 on a
\* value that is no number, and min(timestamps) on naive and aware datetimes mixed
RaisesTypeError(vl) ==
    \/ \E n \in DOMAIN vl : ~IsNumber(vl[n]["status_code"])
    \/ /\ \E n \in DOMAIN vl : IsAware(vl[n]["_ts"])
       /\ \E n \in DOMAIN vl : ~IsAware(vl[n]["_ts"])

\* summary: min(timestamps) and max(timestamps) keep the first of equal instants
Summary(vl) ==
    LET instants == [n \in DOMAIN vl |-> Instant(vl[n]["_ts"])] IN
    [total_requests |-> Len(vl),
     time_range |-> [start |-> _iso_z(vl[FirstMinIndex(instants)]["_ts"]),
                     end |-> _iso_z(vl[FirstMaxIndex(instants)]["_ts"])]]

\* Counter(status codes).most_common(1)[0][0]
MostCommonStatus(logs_list) ==
    most_common(Counter(Field(logs_list, "status_code")), 1)[1].k

EndpointStat(g) ==
    [endpoint |-> g.k,
     request_count |-> Len(g.v),
     slowest_request_ms |-> IntField(g.v, "response_time_ms")[
                               FirstMaxIndex(IntField(g.v, "response_time_ms"))],
     fastest_request_ms |-> IntField(g.v, "response_time_ms")[
                               FirstMinIndex(IntField(g.v, "response_time_ms"))],
     error_count |-> Count(g.v, IsError),
     most_common_status |-> MostCommonStatus(g.v)]

EndpointStats(endpoints) == [n \in DOMAIN endpoints |-> EndpointStat(endpoints[n])]

\* avg_resp of an endpoint group
AvgResp(logs_list) == Ratio(Sum(IntField(logs_list, "response_time_ms")), Len(logs_list))

\* err_rate_pct of an endpoint group
ErrRatePct(logs_list) == Percent(safe_divide(Count(logs_list, IsError), Len(logs_list)))

\* the issues one endpoint contributes: slow_endpoint, then high_error_rate
EndpointIssues(g) ==
    LET sev_rt == classify_response_time(AvgResp(g.v))
        sev_err == classify_error_rate(ErrRatePct(g.v))
    IN (IF sev_rt # ""
        THEN <<[type |-> "slow_endpoint", endpoint |-> g.k,
                threshold_ms |-> SLOW_ENDPOINT_THRESHOLD_MS, severity |-> sev_rt]>>
        ELSE <<>>)
       \o
       (IF sev_err # ""
        THEN <<[type |-> "high_error_rate", endpoint |-> g.k, severity |-> sev_err]>>
        ELSE <<>>)

\* for x in xs: out.extend(F(x))
FlatMap(xs, F(_)) == Loop(LAMBDA out, n : out \o F(xs[n]), <<>>, 1, Len(xs))

PerformanceIssues(endpoints) == FlatMap(endpoints, EndpointIssues)

SizeInsights(vl) ==
    [largest_request |-> vl[FirstMaxIndex(IntField(vl, "request_size_bytes"))],
     largest_response |-> vl[FirstMaxIndex(IntField(vl, "response_size_bytes"))]]

\* ts.strftime("%H:00"): the hour of the datetime's own wall clock
HourOf(dt) == (dt.i \div 60) % 24

HourlyDistribution(vl) ==
    [h \in {HourOf(vl[n]["_ts"]) : n \in DOMAIN vl} |->
        Cardinality({n \in DOMAIN vl : HourOf(vl[n]["_ts"]) = h})]

TopUsers_InsertionOrder(vl) ==
    LET counts == Counter(Field(vl, "user_id"))
        top == SubSeq(counts, 1, IF Len(counts) < TOP_USERS THEN Len(counts) ELSE TOP_USERS)
    IN [n \in DOMAIN top |-> [user_id |-> top[n].k, request_count |-> top[n].v]]

\* Counter(user ids).most_common(5) as {user_id, request_count} entries
TopUsers(vl) ==
    LET top == most_common(Counter(Field(vl, "user_id")), TOP_USERS) IN
    [n \in DOMAIN top |-> [user_id |-> top[n].k, request_count |-> top[n].v]]

\* req_count >= CACHE_MIN_REQUESTS and get_count / req_count >= CACHE_MIN_GET_RATIO
HighGetTraffic(logs_list) ==
    /\ Len(logs_list) >= CACHE_MIN_REQUESTS
    /\ RatioGe(Percent(Ratio(Count(logs_list, IsGet), Len(logs_list))),
               CACHE_MIN_GET_RATIO_PCT)

CacheRecommended_RateNotInPercent(logs_list) ==
    /\ HighGetTraffic(logs_list)
    /\ RatioLt(safe_divide(Count(logs_list, IsError), Len(logs_list)), CACHE_MAX_ERROR_RATE)

\* the condition of the "Consider caching" recommendation
CacheRecommended(logs_list) ==
    /\ HighGetTraffic(logs_list)
    /\ RatioLt(ErrRatePct(logs_list), CACHE_MAX_ERROR_RATE)

\* the condition of the "Investigate ... performance" recommendation
SlowRecommended(logs_list) == RatioGt(AvgResp(logs_list), SLOW_ENDPOINT_THRESHOLD_MS)

\* the condition of the "Alert: ... error rate" recommendation
ErrorAlertRecommended(logs_list) == RatioGt(ErrRatePct(logs_list), ERROR_ALERT_RATE)

\* the strings one endpoint contributes, each as its kind and the values it prints
EndpointRecommendations(g) ==
    (IF CacheRecommended(g.v)
     THEN <<[kind |-> "caching", endpoint |-> g.k, value |-> Len(g.v)]>>
     ELSE <<>>)
    \o
    (IF SlowRecommended(g.v)
     THEN <<[kind |-> "performance", endpoint |-> g.k,
             value |-> AvgResp(g.v).num \div AvgResp(g.v).den]>>
     ELSE <<>>)
    \o
    (IF ErrorAlertRecommended(g.v)
     THEN <<[kind |-> "error_rate", endpoint |-> g.k]>>
     ELSE <<>>)

Recommendations(endpoints) == FlatMap(endpoints, EndpointRecommendations)

\* endpoint_avg_resp.get(ep) or 0, then response_time_ms > multiplier * baseline
IsResponseSpike(l, endpoints) ==
    LET at == KeyIndex(endpoints, l["endpoint"])
        baseline == IF at = 0 THEN Ratio(0, 1) ELSE AvgResp(endpoints[at].v)
    IN /\ baseline.num # 0
       /\ l["response_time_ms"].i * baseline.den > RESPONSE_SPIKE_MULTIPLIER * baseline.num

ResponseTimeSpikes(vl, endpoints) ==
    SelectSeq(vl, LAMBDA l : IsResponseSpike(l, endpoints))

ServerErrors(vl) == SelectSeq(vl, LAMBDA l : l["status_code"].i >= 500)

\* list.sort() of datetimes: ascending, equal instants in their given order
SortInsert(sorted, x) ==
    LET at == Cardinality({m \in DOMAIN sorted : ~DtLess(x, sorted[m])}) IN
    SubSeq(sorted, 1, at) \o <<x>> \o SubSeq(sorted, at + 1, Len(sorted))

SortTimes(times) == Loop(LAMBDA sorted, n : SortInsert(sorted, times[n]), <<>>, 1, Len(times))

\* the first window, in list order, that passes Test (the loop breaks there);
\* 0 when none does
FirstWindow(windows, Test(_)) ==
    IF \E n \in DOMAIN windows : Test(windows[n])
    THEN CHOOSE n \in DOMAIN windows :
            Test(windows[n]) /\ \A m \in 1..(n - 1) : ~Test(windows[m])
    ELSE 0

\* --- Python floats (IEEE 754 binary64) of the request-spike arithmetic ---
\* A positive float is [m, e]: m its 53 mantissa bits, most significant first
\* and m[1] = 1, and e the exponent of the last bit: the value is m * 2^e.

\* the bits of the integer k > 0, most significant first; <<>> for 0
RECURSIVE Bits(_)
Bits(k) == IF k = 0 THEN <<>> ELSE Bits(k \div 2) \o <<k % 2>>

\* bits + 1
BitsInc(b) ==
    IF \A n \in DOMAIN b : b[n] = 1
    THEN <<1>> \o [n \in DOMAIN b |-> 0]
    ELSE LET last == CHOOSE n \in DOMAIN b :
                        b[n] = 0 /\ \A k \in (n + 1)..Len(b) : b[k] = 1
         IN [n \in DOMAIN b |-> IF n < last THEN b[n] ELSE IF n = last THEN 1 ELSE 0]

\* bit n of b counted from the least significant bit (n = 0), 0 beyond its length
BitAt(b, n) == IF n < Len(b) THEN b[Len(b) - n] ELSE 0

\* a + b + carry
BitsAdd(a, b, carry) ==
    LET width == IF Len(a) > Len(b) THEN Len(a) ELSE Len(b)
        Step(acc, n) ==
            LET sum == BitAt(a, n) + BitAt(b, n) + acc.carry IN
            [carry |-> sum \div 2, out |-> <<sum % 2>> \o acc.out]
        added == Loop(Step, [carry |-> carry, out |-> <<>>], 0, width - 1)
    IN IF added.carry = 1 THEN <<1>> \o added.out ELSE added.out

\* b * k for an integer k > 0
RECURSIVE BitsMul(_, _)
BitsMul(b, k) ==
    IF k = 1 THEN b
    ELSE IF k % 2 = 0 THEN BitsMul(b, k \div 2) \o <<0>>
    ELSE BitsAdd(BitsMul(b, k \div 2) \o <<0>>, b, 0)

MantissaBits == 53

\* the float nearest to (b + fraction) * 2^e, ties to even, where b starts
\* with 1 and sticky tells whether a non-zero fraction follows the bits of b
FloatRound(b, sticky, e) ==
    IF Len(b) <= MantissaBits
    THEN [m |-> b \o [n \in 1..(MantissaBits - Len(b)) |-> 0],
          e |-> e - (MantissaBits - Len(b))]
    ELSE LET kept == SubSeq(b, 1, MantissaBits)
             half == b[MantissaBits + 1] = 1
             more == sticky \/ \E n \in (MantissaBits + 2)..Len(b) : b[n] = 1
             up == half /\ (more \/ kept[MantissaBits] = 1)
             m == IF up THEN BitsInc(kept) ELSE kept
         IN IF Len(m) > MantissaBits
            THEN [m |-> SubSeq(m, 1, MantissaBits), e |-> e + (Len(b) - MantissaBits) + 1]
            ELSE [m |-> m, e |-> e + (Len(b) - MantissaBits)]

\* one step of the long division by s: the next bit of the quotient, kept
\* from the first 1 on until MantissaBits + 1 bits are there; z counts the
\* fractional bits produced and r is the remainder
QuotientStep(acc, s) ==
    IF Len(acc.bits) > MantissaBits THEN acc
    ELSE LET bit == IF 2 * acc.r >= s THEN 1 ELSE 0 IN
         [r |-> 2 * acc.r - bit * s,
          bits |-> IF acc.bits = <<>> /\ bit = 0 THEN <<>> ELSE Append(acc.bits, bit),
          z |-> acc.z + 1]

\* the first MantissaBits + 1 significant bits of n / s, the number z of
\* fractional bits among them and the remainder r left after them
QuotientBits(n, s) ==
    Loop(LAMBDA acc, k : QuotientStep(acc, s),
         [r |-> n % s, bits |-> Bits(n \div s), z |-> 0],
         1, MantissaBits + 1 + Len(Bits(s)))

\* float(k) of an integer k > 0
FloatFromInt(k) == FloatRound(Bits(k), FALSE, 0)

\* n / s of two integers n > 0, s > 0 (s a float with an integer value)
FloatDiv(n, s) ==
    LET q == QuotientBits(n, s) IN
    FloatRound(q.bits, q.r # 0, 0 - q.z)

\* f * k, k an integer > 0
FloatMulInt(f, k) == FloatRound(BitsMul(f.m, k), FALSE, f.e)

\* a < b
FloatLt(a, b) ==
    \/ a.e < b.e
    \/ /\ a.e = b.e
       /\ \E n \in 1..MantissaBits :
             /\ a.m[n] < b.m[n]
             /\ \A k \in 1..(n - 1) : a.m[k] = b.m[k]

\* max(1.0, (times[-1] - times[0]).total_seconds() / 60.0)
SpanMinutes(times) ==
    LET d == Instant(times[Len(times)]) - Instant(times[1]) IN
    IF d > 1 THEN d ELSE 1

\* safe_divide(len(times), span_minutes) * REQUEST_SPIKE_WINDOW_MINUTES, a float
AvgRatePerWindow(times) ==
    FloatMulInt(FloatDiv(Len(times), SpanMinutes(times)), REQUEST_SPIKE_WINDOW_MINUTES)

ExceedsSpikeRate_Inclusive(count, avg_rate_per_window) ==
    ~FloatLt(FloatFromInt(count),
             FloatMulInt(avg_rate_per_window, REQUEST_SPIKE_RATE_MULTIPLIER))

\* count > REQUEST_SPIKE_RATE_MULTIPLIER * avg_rate_per_window, an int against a float
ExceedsSpikeRate(count, avg_rate_per_window) ==
    FloatLt(FloatMulInt(avg_rate_per_window, REQUEST_SPIKE_RATE_MULTIPLIER),
            FloatFromInt(count))

\* the request spike of one endpoint, if a window holds more than
\* REQUEST_SPIKE_RATE_MULTIPLIER * (len(times) / span_minutes * window)
EndpointRequestSpike(g) ==
    LET times == SortTimes(Field(g.v, "_ts"))
        windows == window_logs_by_minutes(times, REQUEST_SPIKE_WINDOW_MINUTES)
        avg_rate_per_window == AvgRatePerWindow(times)
        Exceeds(w) == ExceedsSpikeRate(w.count, avg_rate_per_window)
        at == FirstWindow(windows, Exceeds)
    IN IF at = 0 THEN <<>>
       ELSE <<[endpoint |-> g.k,
               timestamp |-> _iso_z(windows[at].start),
               actual_rate |-> windows[at].count,
               severity |-> "high"]>>

RequestSpikes(endpoints) == FlatMap(endpoints, EndpointRequestSpike)

\* strftime('%H:%M') as the minute of the day
MinuteOfDay(wall) == wall % 1440

\* the error cluster of one endpoint's error records, if a window holds more
\* than ERROR_CLUSTER_THRESHOLD of them
EndpointErrorCluster(g) ==
    LET err_times == SortTimes(g.v)
        windows == window_logs_by_minutes(err_times, ERROR_CLUSTER_WINDOW_MINUTES)
        Exceeds(w) == w.count > ERROR_CLUSTER_THRESHOLD
        at == FirstWindow(windows, Exceeds)
    IN IF at = 0 THEN <<>>
       ELSE <<[endpoint |-> g.k,
               time_window |->
                   <<MinuteOfDay(windows[at].start.i),
                     MinuteOfDay(windows[at].start.i + ERROR_CLUSTER_WINDOW_MINUTES)>>,
               error_count |-> windows[at].count,
               severity |-> "critical"]>>

\* endpoint_error_times: endpoint -> list of _ts of its records with status_code >= 400
EndpointErrorTimes(vl) ==
    Loop(LAMBDA result, n :
            IF IsError(vl[n])
            THEN SetDefaultAppend(result, vl[n]["endpoint"], vl[n]["_ts"])
            ELSE result,
         <<>>, 1, Len(vl))

ErrorClusters(vl) == FlatMap(EndpointErrorTimes(vl), EndpointErrorCluster)

IsSuspiciousShare_Inclusive(cnt, total) ==
    RatioGe(Percent(safe_divide(cnt, total)), SUSPICIOUS_TRAFFIC_THRESHOLD_PCT)

\* safe_divide(cnt, total_requests) > SUSPICIOUS_TRAFFIC_THRESHOLD
IsSuspiciousShare(cnt, total) ==
    RatioGt(Percent(safe_divide(cnt, total)), SUSPICIOUS_TRAFFIC_THRESHOLD_PCT)

\* the dict key -> count of the counted keys whose share is suspicious
Suspicious(counts, total) ==
    LET hit == {n \in DOMAIN counts : IsSuspiciousShare(counts[n].v, total)} IN
    [key \in {counts[n].k : n \in hit} |->
        counts[CHOOSE n \in hit : counts[n].k = key].v]

Anomalies(vl, endpoints) ==
    [response_time_spikes |-> ResponseTimeSpikes(vl, endpoints),
     server_errors |-> ServerErrors(vl),
     request_spikes |-> RequestSpikes(endpoints),
     error_clusters |-> ErrorClusters(vl),
     suspicious_endpoints |->
         Suspicious([n \in DOMAIN endpoints |->
                        [k |-> endpoints[n].k, v |-> Len(endpoints[n].v)]], Len(vl)),
     suspicious_users |-> Suspicious(Counter(Field(vl, "user_id")), Len(vl))]

CacheEligible_StrictErrorRate(logs_list) ==
    /\ HighGetTraffic(logs_list)
    /\ RatioLt(ErrRatePct(logs_list), CACHE_MAX_ERROR_RATE)

\* the condition of a caching_opportunities entry
CacheEligible(logs_list) ==
    /\ HighGetTraffic(logs_list)
    /\ RatioLe(ErrRatePct(logs_list), CACHE_MAX_ERROR_RATE)

\* int(req_count * CACHE_HIT_RATE_ASSUMPTION)
PotentialRequestsSaved(req_count) == (req_count * CACHE_HIT_RATE_ASSUMPTION_PCT) \div 100

EndpointCachingOpportunity(g) ==
    IF CacheEligible(g.v)
    THEN <<[endpoint |-> g.k,
            current_requests |-> Len(g.v),
            potential_requests_saved |-> PotentialRequestsSaved(Len(g.v)),
            recommended_ttl_minutes |-> CACHE_RECOMMENDED_TTL_MINUTES,
            recommendation_confidence |-> "high"]>>
    ELSE <<>>

CachingOpportunities(endpoints) == FlatMap(endpoints, EndpointCachingOpportunity)

TotalPotentialSavings(opportunities) ==
    [requests_eliminated |->
        Sum([n \in DOMAIN opportunities |-> opportunities[n].potential_requests_saved])]

\* the report of a call whose valid_logs is not empty
AnalysisReport(vl) ==
    LET endpoints == group_by_endpoint(vl) IN
    [summary |-> Summary(vl),
     endpoint_stats |-> EndpointStats(endpoints),
     performance_issues |-> PerformanceIssues(endpoints),
     size_insights |-> SizeInsights(vl),
     hourly_distribution |-> HourlyDistribution(vl),
     top_users_by_requests |-> TopUsers(vl),
     recommendations |-> Recommendations(endpoints),
     anomalies |-> Anomalies(vl, endpoints),
     caching_opportunities |-> CachingOpportunities(endpoints),
     total_potential_savings |->
         TotalPotentialSavings(CachingOpportunities(endpoints))]

-----------------------------------------------------------------------------
(* The inputs of the call *)

\* the longest list of the short inputs
MaxLen == 3

Log(ts, ep, m, rt, sc, u, rq, rs) ==
    [key \in Range(REQUIRED_FIELDS) |->
        CASE key = "timestamp" -> ts
          [] key = "endpoint" -> ep
          [] key = "method" -> m
          [] key = "response_time_ms" -> rt
          [] key = "status_code" -> sc
          [] key = "user_id" -> u
          [] key = "request_size_bytes" -> rq
          [] key = "response_size_bytes" -> rs]

\* del log[key]
Without(log, key) == [x \in DOMAIN log \ {key} |-> log[x]]

BaseLog ==
    Log(IsoText(600, "Z"), PyStr("/api/users"), PyStr("GET"), PyInt(100),
        PyInt(200), PyStr("user_1"), PyInt(512), PyInt(1024))

\* records that pass is_valid_log
ValidSamples ==
    { BaseLog,
      Log(IsoText(605, "+00:00"), PyStr("/api/users"), PyStr("GET"), PyInt(200),
          PyInt(404), PyStr("user_2"), PyInt(512), PyInt(1024)),
      Log(IsoText(610, "Z"), PyStr("/api/payments"), PyStr("POST"), PyInt(500),
          PyInt(500), PyStr("user_1"), PyInt(1024), PyInt(512)),
      Log(IsoText(720, "+02:00"), PyStr("/api/payments"), PyStr("POST"), PyInt(1500),
          PyInt(200), PyStr("user_3"), PyInt(2048), PyInt(512)),
      Log(IsoText(602, ""), PyStr("/api/users"), PyStr("GET"), PyInt(100),
          PyInt(200), PyStr("user_1"), PyInt(512), PyInt(1024)),
      Log(IsoText(615, "Z"), PyStr(""), PyStr("FETCH"), PyInt(0),
          PyInt(999), PyStr(""), PyInt(0), PyInt(0)),
      Log(IsoText(600, "Z"), PyStr("/api/users"), PyStr("GET"), PyInt(100),
          PyStr("200"), PyStr("user_1"), PyInt(512), PyInt(1024)),
      Log(IsoText(620, "Z"), PyNone, PyInt(7), PyInt(100),
          PyInt(200), PyNone, PyInt(512), PyInt(1024)) }

\* records that is_valid_log rejects
InvalidSamples ==
    { Without(BaseLog, "method"),
      [BaseLog EXCEPT !["timestamp"] = PyStr("invalid-timestamp")],
      [BaseLog EXCEPT !["timestamp"] = PyInt(5)],
      [BaseLog EXCEPT !["response_time_ms"] = PyInt(-50)],
      [BaseLog EXCEPT !["request_size_bytes"] = PyStr("512")],
      [BaseLog EXCEPT !["response_size_bytes"] = PyNone] }

LogUniverse == ValidSamples \cup InvalidSamples

ShortInputs == UNION {[1..n -> LogUniverse] : n \in 0..MaxLen}

\* record j of a run of requests to one endpoint: the first g are GETs, the
\* first e answer 500, and the response times average r
BulkLog(j, ep, g, e, r) ==
    Log(IsoText(720 + (j % 60), "Z"), ep,
        IF j <= g THEN PyStr("GET") ELSE PyStr("POST"),
        PyInt(IF j = 1 THEN r + 100 ELSE IF j = 2 THEN r - 100 ELSE r),
        IF j <= e THEN PyInt(500) ELSE PyInt(200),
        IF j % 2 = 0 THEN PyStr("user_1") ELSE PyStr("user_2"),
        PyInt(100), PyInt(200))

BulkGroup(ep, n, g, e, r) == [j \in 1..n |-> BulkLog(j, ep, g, e, r)]

\* a request to another endpoint, slow and failed
SlowLog ==
    Log(IsoText(780, "Z"), PyStr("/api/slow"), PyStr("POST"), PyInt(600),
        PyInt(500), PyStr("user_99"), PyInt(200), PyInt(300))

\* twenty requests to one endpoint: every error rate that is a multiple of 5%
\* and every mean response time at and just below a severity bound
SeverityInputs ==
    { BulkGroup(PyStr("/api/orders"), 20, 20, e, r) :
        e \in 0..4,
        r \in {RT_MEDIUM - 1, RT_MEDIUM, RT_HIGH - 1, RT_HIGH, RT_CRITICAL - 1, RT_CRITICAL} }

\* one busy endpoint at and around the caching bounds, alone or with SlowLog
OneBulkInputs ==
    { BulkGroup(PyStr("/api/cache"), n, g, e, r) \o tail :
        n \in {CACHE_MIN_REQUESTS - 1, CACHE_MIN_REQUESTS},
        g \in {79, 80, CACHE_MIN_REQUESTS},
        e \in {0, 1, 2, 3, 5, 6},
        r \in {SLOW_ENDPOINT_THRESHOLD_MS, SLOW_ENDPOINT_THRESHOLD_MS + 1},
        tail \in {<<>>, <<SlowLog>>} }

\* two busy endpoints
TwoBulkInputs ==
    { BulkGroup(PyStr("/api/cache"), CACHE_MIN_REQUESTS, CACHE_MIN_REQUESTS, e1, 100)
        \o BulkGroup(PyStr("/api/items"), n2, n2, 2, 100) :
        e1 \in {2, 3}, n2 \in {CACHE_MIN_REQUESTS - 1, CACHE_MIN_REQUESTS} }

BulkInputs == SeverityInputs \cup OneBulkInputs \cup TwoBulkInputs

\* a request like BaseLog at minute at, to endpoint ep, by user u, answered sc
Request(at, ep, sc, u) ==
    Log(IsoText(at, "Z"), PyStr(ep), PyStr("GET"), PyInt(100), PyInt(sc), PyStr(u),
        PyInt(512), PyInt(1024))

\* one or two requests answered with a status code at an edge of the 5xx range
StatusInputs ==
    UNION {[1..n -> {Request(600, "/api/users", sc, "user_1") : sc \in {499, 500, 599, 600}}] :
              n \in 1..2}

\* requests of six users, one each in one of two orders, then up to two more
\* requests of some of them: more users than top_users_by_requests lists, with
\* equal counts at and around the cut
UserNames == <<"user_1", "user_2", "user_3", "user_4", "user_5", "user_6">>

UserInputs ==
    { [n \in 1..6 |-> Request(600 + n, "/api/users", 200, UserNames[order[n]])] \o extra :
        order \in {<<1, 2, 3, 4, 5, 6>>, <<6, 5, 4, 3, 2, 1>>},
        extra \in UNION {[1..n -> {Request(610, "/api/users", 200, UserNames[u]) :
                                      u \in {1, 3, 5, 6}}] : n \in 0..2} }

\* count requests to endpoint ep, all at minute at
Burst(ep, at, count) == [n \in 1..count |-> Request(at, ep, 200, "user_1")]

\* requests to one endpoint in three bursts: a at 10:00, b some minutes later
\* and c later still, from traffic within one window to traffic spread thin
SpikeInputs ==
    { Burst("/api/users", 600, a) \o Burst("/api/users", 600 + d1, b)
        \o Burst("/api/users", 600 + d2, c) :
        a \in 1..3, b \in {0, 1, 3}, d1 \in {4, 5, 10}, c \in 0..1,
        d2 \in {15, 16, 20, 21, 30, 31, 45, 46} }

\* 106 requests over 30 minutes, 53 of them in the first window: the count of
\* that window equals REQUEST_SPIKE_RATE_MULTIPLIER times the expected count
SpikeTieInput ==
    Burst("/api/users", 600, 53) \o Burst("/api/users", 615, 52) \o Burst("/api/users", 630, 1)

\* two endpoints, the second with its requests given out of order and its
\* timestamps in two forms
TwoSpikeInputs ==
    { Burst("/api/users", 600, 2) \o Burst("/api/users", 600 + d, 1)
        \o <<Request(660, "/api/orders", 200, "user_2"),
             [Request(720, "/api/orders", 200, "user_2") EXCEPT
                 !["timestamp"] = IsoText(720, "+02:00")],
             Request(610, "/api/orders", 200, "user_2")>> :
        d \in {15, 16, 30, 31} }

\* count requests to endpoint ep at minute at, all answered sc
Answers(ep, at, count, sc) == [n \in 1..count |-> Request(at, ep, sc, "user_1")]

\* errors of one endpoint around ERROR_CLUSTER_THRESHOLD: k at 10:00 and j
\* more inside or just past the window, after an early error or none, among
\* successes of the endpoint and errors of another endpoint in the same window
ClusterInputs ==
    { Answers("/api/users", 590, early, 404)
        \o Answers("/api/orders", 602, other, 500)
        \o Answers("/api/users", 600, k, 500)
        \o Answers("/api/users", 601, fine, 200)
        \o Answers("/api/users", 600 + d, j, 404) :
        early \in 0..1, other \in {0, 2}, fine \in {0, 2},
        k \in {ERROR_CLUSTER_THRESHOLD - 1, ERROR_CLUSTER_THRESHOLD,
                ERROR_CLUSTER_THRESHOLD + 1},
        j \in 0..2,
        d \in {ERROR_CLUSTER_WINDOW_MINUTES - 1, ERROR_CLUSTER_WINDOW_MINUTES} }

AnomalyInputs ==
    StatusInputs \cup UserInputs \cup SpikeInputs \cup {SpikeTieInput} \cup TwoSpikeInputs
        \cup ClusterInputs

-----------------------------------------------------------------------------
(* The call *)

Init ==
    /\ logs \in ShortInputs \cup BulkInputs \cup AnomalyInputs
    /\ valid_logs = <<>>
    /\ report = <<>>
    /\ pc = "called"

\* if not logs: return the canonical empty report
ReturnForEmptyInput ==
    /\ pc = "called"
    /\ logs = <<>>
    /\ report' = CanonicalEmptyReport
    /\ pc' = "returned"
    /\ UNCHANGED <<logs, valid_logs>>

\* the loop that builds valid_logs
BuildValidLogs ==
    /\ pc = "called"
    /\ logs # <<>>
    /\ LET out == ValidLogsLoop(logs) IN
       /\ valid_logs' = out.valid_logs
       /\ logs' = out.logs
    /\ pc' = "validated"
    /\ UNCHANGED report

\* if not valid_logs: return analyze_api_logs([])
ReturnForNoValidLogs ==
    /\ pc = "validated"
    /\ valid_logs = <<>>
    /\ report' = CanonicalEmptyReport
    /\ pc' = "returned"
    /\ UNCHANGED <<logs, valid_logs>>

\* the analysis, when no comparison of it raises
Analyze ==
    /\ pc = "validated"
    /\ valid_logs # <<>>
    /\ ~RaisesTypeError(valid_logs)
    /\ report' = AnalysisReport(valid_logs)
    /\ pc' = "returned"
    /\ UNCHANGED <<logs, valid_logs>>

\* the analysis, when a comparison of it raises: the TypeError leaves the call
RaiseTypeError ==
    /\ pc = "validated"
    /\ valid_logs # <<>>
    /\ RaisesTypeError(valid_logs)
    /\ pc' = "raised"
    /\ UNCHANGED <<logs, valid_logs, report>>

Next ==
    \/ ReturnForEmptyInput
    \/ BuildValidLogs
    \/ ReturnForNoValidLogs
    \/ Analyze
    \/ RaiseTypeError

Spec == Init /\ [][Next]_vars

-----------------------------------------------------------------------------
(* What the claims speak of, stated on the caller's input *)

ReportSections ==
    {"summary", "endpoint_stats", "performance_issues", "size_insights",
     "hourly_distribution", "top_users_by_requests", "recommendations",
     "anomalies", "caching_opportunities", "total_potential_savings"}

\* a timestamp text the parser accepts: an ISO date-time, with Z, an offset or neither
Parsable(ts) == ts.ty = "isostr" /\ ts.s \in {"", "Z", "+00:00", "+02:00"}

\* a record with the eight required keys, a parsable timestamp and three
\* numeric, non-negative measures
WellFormed(r) ==
    /\ Range(REQUIRED_FIELDS) \subseteq DOMAIN r
    /\ Parsable(r["timestamp"])
    /\ \A key \in {"response_time_ms", "request_size_bytes", "response_size_bytes"} :
          r[key].ty = "int" /\ r[key].i >= 0

\* the valid records of the input, in input order
WellFormedLogs == SelectSeq(logs, WellFormed)

Returned == pc = "returned"

\* the call has returned a report on at least one valid record
Analyzed == pc = "returned" /\ WellFormedLogs # <<>>

\* the positions in the valid records V of the records of endpoint ep
GroupOf(V, ep) == {n \in DOMAIN V : V[n]["endpoint"] = ep}

EndpointsIn(V) == {V[n]["endpoint"] : n \in DOMAIN V}

\* of the positions G, those of the records with status_code >= 400
ErrorsOf(V, G) == {n \in G : V[n]["status_code"].i >= 400}

\* of the positions G, those of the GET records
GetsOf(V, G) == {n \in G : V[n]["method"] = PyStr("GET")}

\* the sum of the response times of the records at the positions G
RECURSIVE TimeSum(_, _)
TimeSum(V, G) ==
    IF G = {} THEN 0
    ELSE LET n == CHOOSE m \in G : TRUE IN
         V[n]["response_time_ms"].i + TimeSum(V, G \ {n})

MinOf(S) == CHOOSE x \in S : \A y \in S : x <= y

MaxOf(S) == CHOOSE x \in S : \A y \in S : y <= x

-----------------------------------------------------------------------------
(* C1 *)

\* C1: a call whose input holds only invalid records (a required key missing,
\* an unparsable timestamp, a negative or non-numeric measure), in any number
\* and order, returns the report of analyze_api_logs([]): the canonical empty
\* report.
C1_InvalidOnlyReturnsCanonicalEmpty ==
    (Returned /\ \A n \in DOMAIN logs : ~WellFormed(logs[n]))
        => report = CanonicalEmptyReport

\* a returned call on two or more invalid records of different kinds
C1_Witness ==
    /\ Returned
    /\ Len(logs) >= 2
    /\ \A n \in DOMAIN logs : ~WellFormed(logs[n])
    /\ \E n \in DOMAIN logs : "method" \notin DOMAIN logs[n]
    /\ \E n \in DOMAIN logs :
          /\ "response_time_ms" \in DOMAIN logs[n]
          /\ logs[n]["response_time_ms"].i < 0
    /\ report = CanonicalEmptyReport

-----------------------------------------------------------------------------
(* C2 *)

\* C2: for every input the call ends by returning a report with exactly the
\* ten canonical sections and never ends in an error, whatever the
\* unvalidated fields hold and whether or not the timestamps carry an offset.
C2_AlwaysReturnsTenSections ==
    /\ pc # "raised"
    /\ Returned => DOMAIN report = ReportSections

-----------------------------------------------------------------------------
(* C3 *)

\* the records embedded in a report
EmbeddedRecords(r) ==
    (IF DOMAIN r.size_insights = {} THEN {}
     ELSE {r.size_insights.largest_request, r.size_insights.largest_response})
    \cup Range(r.anomalies.response_time_spikes)
    \cup Range(r.anomalies.server_errors)

\* C3: the internal annotation _ts appears nowhere in the returned report: no
\* record embedded in a section carries a _ts key.
C3_NoTsInReport ==
    Returned => \A e \in EmbeddedRecords(report) : "_ts" \notin DOMAIN e

-----------------------------------------------------------------------------
(* C4 *)

\* C4: the call leaves the caller's input unchanged: no step changes the
\* list, its order, or the keys and values of any of its records.
C4_InputUnchanged == [][logs' = logs]_vars

\* a returned analysis of an input that holds valid and invalid records, none
\* of them carrying _ts
C4_Witness ==
    /\ Analyzed
    /\ Len(WellFormedLogs) < Len(logs)
    /\ Len(valid_logs) = Len(WellFormedLogs)
    /\ \A n \in DOMAIN valid_logs : "_ts" \in DOMAIN valid_logs[n]
    /\ \A n \in DOMAIN logs : "_ts" \notin DOMAIN logs[n]

-----------------------------------------------------------------------------
(* C5 *)

\* C5: when the input holds at least one valid record, summary.total_requests
\* is the number of input records with the eight keys, a parsable timestamp
\* and numeric non-negative measures; status_code, method and empty endpoint
\* or user_id reject nothing, and invalid records in between change nothing.
C5_TotalRequestsCountsValidRecords ==
    Analyzed =>
        /\ "total_requests" \in DOMAIN report.summary
        /\ report.summary.total_requests
              = Cardinality({n \in DOMAIN logs : WellFormed(logs[n])})

\* a returned analysis of valid, invalid, valid, one valid record having an
\* unknown method and status and empty endpoint and user_id
C5_Witness ==
    /\ Analyzed
    /\ Len(logs) = 3
    /\ WellFormed(logs[1]) /\ ~WellFormed(logs[2]) /\ WellFormed(logs[3])
    /\ logs[3]["endpoint"] = PyStr("") /\ logs[3]["user_id"] = PyStr("")
    /\ logs[3]["method"] = PyStr("FETCH") /\ logs[3]["status_code"] = PyInt(999)
    /\ report.summary.total_requests = 2

-----------------------------------------------------------------------------
(* C6 *)

\* C6: when the input holds at least one valid record, time_range.start and
\* time_range.end are the earliest and the latest parsed instant of the valid
\* records, each rendered as <date>T<time>Z, whatever form the input had.
C6_TimeRangeIsEarliestLatestInZForm ==
    Analyzed =>
        LET V == WellFormedLogs
            at == {Instant(parse_iso_timestamp(V[n]["timestamp"])) : n \in DOMAIN V}
            range == report.summary.time_range
        IN /\ range.start = IsoText(MinOf(at), "Z")
           /\ range.end = IsoText(MaxOf(at), "Z")

-----------------------------------------------------------------------------
(* C7 *)

\* sc is a status code of highest frequency among the records at the
\* positions G and, of the codes tied at that frequency, the one met first
IsStableMode(V, G, sc) ==
    LET with(code) == {n \in G : V[n]["status_code"] = code} IN
    /\ with(sc) # {}
    /\ \A other \in {V[n]["status_code"] : n \in G} :
          \/ Cardinality(with(other)) < Cardinality(with(sc))
          \/ /\ Cardinality(with(other)) = Cardinality(with(sc))
             /\ MinOf(with(sc)) <= MinOf(with(other))

\* C7: endpoint_stats holds one entry per distinct endpoint of the valid
\* records, in order of first occurrence; each entry's request_count,
\* slowest_request_ms, fastest_request_ms and error_count are the number, the
\* largest and the smallest response time and the number of status codes
\* >= 400 of that endpoint's valid records, and most_common_status is the
\* most frequent status code, a tie going to the tied code met first.
C7_EndpointStats ==
    Analyzed =>
        LET V == WellFormedLogs
            stats == report.endpoint_stats
            times(G) == {V[n]["response_time_ms"].i : n \in G}
        IN /\ {stats[a].endpoint : a \in DOMAIN stats} = EndpointsIn(V)
           /\ Len(stats) = Cardinality(EndpointsIn(V))
           /\ \A a, b \in DOMAIN stats :
                 a < b => MinOf(GroupOf(V, stats[a].endpoint))
                            < MinOf(GroupOf(V, stats[b].endpoint))
           /\ \A a \in DOMAIN stats :
                 LET G == GroupOf(V, stats[a].endpoint) IN
                 /\ stats[a].request_count = Cardinality(G)
                 /\ stats[a].slowest_request_ms = MaxOf(times(G))
                 /\ stats[a].fastest_request_ms = MinOf(times(G))
                 /\ stats[a].error_count = Cardinality(ErrorsOf(V, G))
                 /\ IsStableMode(V, G, stats[a].most_common_status)

\* a report on two endpoints, the first of them with two status codes tied,
\* the larger code met first, and with different response times
C7_Witness ==
    /\ Analyzed
    /\ Len(report.endpoint_stats) = 2
    /\ LET s == report.endpoint_stats[1] IN
       /\ s.request_count = 2
       /\ s.most_common_status = PyInt(404)
       /\ WellFormedLogs[1]["status_code"] = PyInt(404)
       /\ \E n \in DOMAIN WellFormedLogs :
             /\ WellFormedLogs[n]["endpoint"] = s.endpoint
             /\ WellFormedLogs[n]["status_code"] = PyInt(200)
       /\ s.slowest_request_ms > s.fastest_request_ms
       /\ s.error_count = 1

-----------------------------------------------------------------------------
(* C8 *)

\* the highest of medium (b1), high (b2), critical (b3) that num/den reaches,
\* "" when it is below b1
SeverityOf(num, den, b1, b2, b3) ==
    IF num >= b3 * den THEN "critical"
    ELSE IF num >= b2 * den THEN "high"
    ELSE IF num >= b1 * den THEN "medium"
    ELSE ""

IssuesOf(kind, ep) ==
    {n \in DOMAIN report.performance_issues :
        /\ report.performance_issues[n].type = kind
        /\ report.performance_issues[n].endpoint = ep}

\* C8: for each endpoint a slow_endpoint issue is emitted iff its mean
\* response time is >= 500, with the highest severity of medium (500), high
\* (1000), critical (2000) that the mean reaches, and a high_error_rate issue
\* iff its error rate is >= 5 percent, with the highest of medium (5), high
\* (10), critical (15) that the rate reaches; a value equal to a bound gets
\* that bound's severity, and nothing else is emitted.
C8_SeverityIsInclusive ==
    Analyzed =>
        LET V == WellFormedLogs IN
        /\ \A n \in DOMAIN report.performance_issues :
              /\ report.performance_issues[n].endpoint \in EndpointsIn(V)
              /\ report.performance_issues[n].type \in {"slow_endpoint", "high_error_rate"}
        /\ \A ep \in EndpointsIn(V) :
              LET G == GroupOf(V, ep)
                  count == Cardinality(G)
                  slow == SeverityOf(TimeSum(V, G), count, 500, 1000, 2000)
                  failing == SeverityOf(100 * Cardinality(ErrorsOf(V, G)), count, 5, 10, 15)
              IN /\ Cardinality(IssuesOf("slow_endpoint", ep)) = IF slow = "" THEN 0 ELSE 1
                 /\ \A n \in IssuesOf("slow_endpoint", ep) :
                       report.performance_issues[n].severity = slow
                 /\ Cardinality(IssuesOf("high_error_rate", ep)) = IF failing = "" THEN 0 ELSE 1
                 /\ \A n \in IssuesOf("high_error_rate", ep) :
                       report.performance_issues[n].severity = failing

\* a report on an endpoint whose mean response time is exactly 1000 and whose
\* error rate is exactly 10 percent: both issues, both "high"
C8_Witness ==
    /\ Analyzed
    /\ LET V == WellFormedLogs IN
       \E ep \in EndpointsIn(V) :
          LET G == GroupOf(V, ep) IN
          /\ TimeSum(V, G) = 1000 * Cardinality(G)
          /\ 100 * Cardinality(ErrorsOf(V, G)) = 10 * Cardinality(G)
          /\ \E n \in IssuesOf("slow_endpoint", ep) :
                report.performance_issues[n].severity = "high"
          /\ \E n \in IssuesOf("high_error_rate", ep) :
                report.performance_issues[n].severity = "high"

-----------------------------------------------------------------------------
(* C9 *)

OpportunitiesOf(ep) ==
    {n \in DOMAIN report.caching_opportunities :
        report.caching_opportunities[n].endpoint = ep}

\* C9: caching_opportunities holds exactly one entry for every endpoint with
\* at least 100 valid records, a share of GETs of at least 0.80 and an error
\* rate of at most 2 percent (2 percent included), and no entry for any other
\* endpoint; the entry's current_requests is the endpoint's valid-record count.
C9_CachingOpportunities ==
    Analyzed =>
        LET V == WellFormedLogs IN
        /\ \A n \in DOMAIN report.caching_opportunities :
              report.caching_opportunities[n].endpoint \in EndpointsIn(V)
        /\ \A ep \in EndpointsIn(V) :
              LET G == GroupOf(V, ep)
                  count == Cardinality(G)
                  eligible ==
                      /\ count >= 100
                      /\ 100 * Cardinality(GetsOf(V, G)) >= 80 * count
                      /\ 100 * Cardinality(ErrorsOf(V, G)) <= 2 * count
              IN /\ Cardinality(OpportunitiesOf(ep)) = IF eligible THEN 1 ELSE 0
                 /\ \A n \in OpportunitiesOf(ep) :
                       report.caching_opportunities[n].current_requests = count

\* a report with an entry for an endpoint that sits on all three bounds: 100
\* records, 80 GETs, 2 errors
C9_Witness ==
    /\ Analyzed
    /\ LET V == WellFormedLogs IN
       \E ep \in EndpointsIn(V) :
          LET G == GroupOf(V, ep) IN
          /\ Cardinality(G) = 100
          /\ Cardinality(GetsOf(V, G)) = 80
          /\ Cardinality(ErrorsOf(V, G)) = 2
          /\ \E n \in OpportunitiesOf(ep) :
                report.caching_opportunities[n].current_requests = 100

-----------------------------------------------------------------------------
(* C10 *)

\* the kinds of the recommendations that report r makes for endpoint ep
KindsOf(r, ep) ==
    {r.recommendations[n].kind :
        n \in {m \in DOMAIN r.recommendations : r.recommendations[m].endpoint = ep}}

AllKinds == {"caching", "performance", "error_rate"}

\* the report of a call on input ls, the canonical empty one when no record
\* of ls is valid; no report when the call raises
ReportsOf(ls) ==
    LET vl == ValidLogsLoop(ls).valid_logs IN
    IF vl = <<>> THEN {CanonicalEmptyReport}
    ELSE IF RaisesTypeError(vl) THEN {}
    ELSE {AnalysisReport(vl)}

\* C10 as stated: the three recommendation conditions are independent, and in
\* particular there is an input for which one endpoint receives all three
\* recommendations: the input of this call or one of the bulk inputs, which
\* hold endpoints of 99 to 100 records on either side of every bound.
C10_AllThreeCanFire ==
    \E ls \in {logs} \cup BulkInputs : \E r \in ReportsOf(ls) :
        \E n \in DOMAIN r.recommendations :
            KindsOf(r, r.recommendations[n].endpoint) = AllKinds

\* C10 as amended: the caching recommendation (error rate < 2 percent) and the
\* error-rate alert (error rate > 5 percent) are never made for the same
\* endpoint, so no endpoint receives all three recommendations; each of the
\* two can be made together with the slow-performance alert.
C10_CachingExcludesErrorAlert ==
    Returned =>
        \A n \in DOMAIN report.recommendations :
            LET kinds == KindsOf(report, report.recommendations[n].endpoint) IN
            /\ ~({"caching", "error_rate"} \subseteq kinds)
            /\ kinds # AllKinds

\* a report that recommends caching and a performance investigation for one
\* endpoint, and a performance investigation and an error alert for another
C10_Witness ==
    /\ Returned
    /\ \E n \in DOMAIN report.recommendations :
          KindsOf(report, report.recommendations[n].endpoint) = {"caching", "performance"}
    /\ \E n \in DOMAIN report.recommendations :
          KindsOf(report, report.recommendations[n].endpoint) = {"performance", "error_rate"}

-----------------------------------------------------------------------------
(* C11 *)

\* a record of the report without the internal annotation
StripTs(e) == [key \in DOMAIN e \ {"_ts"} |-> e[key]]

\* C11: anomalies.server_errors holds, in input order, exactly the valid
\* records whose status_code lies in 500..599: a valid record answered below
\* 500 or above 599 is never collected.
C11_ServerErrorsAre5xx ==
    Analyzed =>
        LET V == WellFormedLogs
            collected == report.anomalies.server_errors
        IN [n \in DOMAIN collected |-> StripTs(collected[n])]
             = SelectSeq(V, LAMBDA r : r["status_code"].i \in 500..599)

-----------------------------------------------------------------------------
(* C12 *)

\* flagged maps exactly the values of field key that more than half of the
\* valid records V carry, each to the number of records that carry it
FlagsMajority(flagged, V, key) ==
    LET with(x) == {n \in DOMAIN V : V[n][key] = x}
        major == {x \in {V[n][key] : n \in DOMAIN V} :
                     2 * Cardinality(with(x)) > Len(V)}
    IN /\ DOMAIN flagged = major
       /\ \A x \in major : flagged[x] = Cardinality(with(x))

\* C12: suspicious_users maps a user_id to its number of valid requests
\* exactly for the users with strictly more than 50 percent of the valid
\* requests, and suspicious_endpoints does the same for endpoints; a share of
\* exactly 50 percent is not flagged, so each mapping holds at most one key.
C12_SuspiciousIsStrictMajority ==
    Analyzed =>
        LET V == WellFormedLogs IN
        /\ FlagsMajority(report.anomalies.suspicious_users, V, "user_id")
        /\ FlagsMajority(report.anomalies.suspicious_endpoints, V, "endpoint")
        /\ Cardinality(DOMAIN report.anomalies.suspicious_users) <= 1
        /\ Cardinality(DOMAIN report.anomalies.suspicious_endpoints) <= 1

\* a report on two valid requests of two users, 50 percent each, to one
\* endpoint: no user is flagged, the endpoint is, with its count of 2
C12_Witness ==
    /\ Analyzed
    /\ Len(WellFormedLogs) = 2
    /\ WellFormedLogs[1]["user_id"] # WellFormedLogs[2]["user_id"]
    /\ WellFormedLogs[1]["endpoint"] = WellFormedLogs[2]["endpoint"]
    /\ DOMAIN report.anomalies.suspicious_users = {}
    /\ DOMAIN report.anomalies.suspicious_endpoints = {WellFormedLogs[1]["endpoint"]}
    /\ report.anomalies.suspicious_endpoints[WellFormedLogs[1]["endpoint"]] = 2

-----------------------------------------------------------------------------
(* C13 *)

\* C13: top_users_by_requests lists min(5, number of distinct user_ids)
\* entries, each a user_id with its number of valid records, in order of
\* non-increasing request_count; of users with equal counts the one whose
\* first record comes earlier in the input is listed first, and that order
\* also decides which users are cut off when there are more than five.
C13_TopUsers ==
    Analyzed =>
        LET V == WellFormedLogs
            top == report.top_users_by_requests
            users == {V[n]["user_id"] : n \in DOMAIN V}
            with(u) == {n \in DOMAIN V : V[n]["user_id"] = u}
            count(u) == Cardinality(with(u))
            \* user u is listed before user w
            Before(u, w) ==
                \/ count(u) > count(w)
                \/ count(u) = count(w) /\ MinOf(with(u)) < MinOf(with(w))
        IN /\ Len(top) = IF Cardinality(users) < 5 THEN Cardinality(users) ELSE 5
           /\ \A a \in DOMAIN top :
                 /\ top[a].user_id \in users
                 /\ top[a].request_count = count(top[a].user_id)
           /\ \A a, b \in DOMAIN top : a < b => Before(top[a].user_id, top[b].user_id)
           /\ \A u \in users \ {top[a].user_id : a \in DOMAIN top} :
                 \A a \in DOMAIN top : Before(top[a].user_id, u)

\* a report on six users where the user met last has the most requests, two
\* of the others are tied behind it in input order, and a user met earlier is
\* cut off
C13_Witness ==
    /\ Analyzed
    /\ LET V == WellFormedLogs
           top == report.top_users_by_requests
       IN /\ Cardinality({V[n]["user_id"] : n \in DOMAIN V}) = 6
          /\ Len(top) = 5
          /\ top[1].request_count = 2
          /\ top[1].user_id = V[6]["user_id"]
          /\ top[2].request_count = 1 /\ top[2].user_id = V[1]["user_id"]
          /\ top[3].request_count = 1 /\ top[3].user_id = V[2]["user_id"]
          /\ V[5]["user_id"] \notin {top[a].user_id : a \in DOMAIN top}

-----------------------------------------------------------------------------
(* C14 *)

\* the instant of the valid record V[n], in minutes
InstantOf(V, n) == Instant(parse_iso_timestamp(V[n]["timestamp"]))

\* the number of the records at the positions G in the window [start, start + width)
InWindow(V, G, start, width) ==
    Cardinality({m \in G : start <= InstantOf(V, m) /\ InstantOf(V, m) < start + width})

\* max(1, minutes between the first and the last of the records at G)
SpanOf(V, G) ==
    LET at == {InstantOf(V, n) : n \in G}
        d == MaxOf(at) - MinOf(at)
    IN IF d > 1 THEN d ELSE 1

SpikesOf(ep) ==
    {n \in DOMAIN report.anomalies.request_spikes :
        report.anomalies.request_spikes[n].endpoint = ep}

\* C14: with expected = (records of the endpoint / max(1, minutes between
\* its first and last record)) * 5, request_spikes holds a record for an
\* endpoint iff a window [start, start + 5) anchored at one of its records
\* holds strictly more than 3 * expected of its records; there is at most one
\* record per endpoint, and its timestamp and actual_rate are the start and
\* the count of the earliest such window.
C14_RequestSpikes ==
    Analyzed =>
        LET V == WellFormedLogs IN
        /\ \A n \in DOMAIN report.anomalies.request_spikes :
              report.anomalies.request_spikes[n].endpoint \in EndpointsIn(V)
        /\ \A ep \in EndpointsIn(V) :
              LET G == GroupOf(V, ep)
                  span == SpanOf(V, G)
                  \* count > 3 * (|G| / span * 5), in exact arithmetic
                  qualifying == {x \in {InstantOf(V, n) : n \in G} :
                                    InWindow(V, G, x, 5) * span > 3 * 5 * Cardinality(G)}
              IN /\ Cardinality(SpikesOf(ep)) = IF qualifying = {} THEN 0 ELSE 1
                 /\ \A n \in SpikesOf(ep) :
                       LET spike == report.anomalies.request_spikes[n] IN
                       /\ Instant(parse_iso_timestamp(spike.timestamp)) = MinOf(qualifying)
                       /\ spike.actual_rate = InWindow(V, G, MinOf(qualifying), 5)

-----------------------------------------------------------------------------
(* C15 *)

ClustersOf(ep) ==
    {n \in DOMAIN report.anomalies.error_clusters :
        report.anomalies.error_clusters[n].endpoint = ep}

\* C15: error_clusters holds a record for an endpoint iff a window
\* [start, start + 5) anchored at one of the endpoint's error records
\* (status_code >= 400) holds more than 10 of that endpoint's error records;
\* there is at most one record per endpoint and its error_count is the count
\* of the earliest such window; records that are no errors and records of
\* other endpoints are not counted.
C15_ErrorClusters ==
    Analyzed =>
        LET V == WellFormedLogs IN
        /\ \A n \in DOMAIN report.anomalies.error_clusters :
              report.anomalies.error_clusters[n].endpoint \in EndpointsIn(V)
        /\ \A ep \in EndpointsIn(V) :
              LET E == ErrorsOf(V, GroupOf(V, ep))
                  qualifying == {x \in {InstantOf(V, n) : n \in E} :
                                    InWindow(V, E, x, 5) > 10}
              IN /\ Cardinality(ClustersOf(ep)) = IF qualifying = {} THEN 0 ELSE 1
                 /\ \A n \in ClustersOf(ep) :
                       report.anomalies.error_clusters[n].error_count
                         = InWindow(V, E, MinOf(qualifying), 5)

\* a report with a cluster of exactly 11 errors of an endpoint whose first
\* error lies before the cluster's window, while that window also holds
\* successes of the endpoint and errors of another endpoint, which has no
\* cluster
C15_Witness ==
    /\ Analyzed
    /\ Len(report.anomalies.error_clusters) = 1
    /\ report.anomalies.error_clusters[1].error_count = 11
    /\ LET V == WellFormedLogs
           ep == report.anomalies.error_clusters[1].endpoint
           G == GroupOf(V, ep)
           E == ErrorsOf(V, G)
           start == CHOOSE x \in {InstantOf(V, n) : n \in E} : InWindow(V, E, x, 5) = 11
       IN /\ \E n \in E : InstantOf(V, n) < start
          /\ InWindow(V, G, start, 5) > 11
          /\ \E n \in DOMAIN V :
                /\ V[n]["endpoint"] # ep
                /\ V[n]["status_code"].i >= 400
                /\ start <= InstantOf(V, n) /\ InstantOf(V, n) < start + 5

-----------------------------------------------------------------------------
(* C16 *)

\* every 5-minute window anchored at one of the records at G holds that
\* record alone
Sparse(V, G) == \A n \in G : InWindow(V, G, InstantOf(V, n), 5) = 1

\* C16 as stated: a request spike is never reported for sparse traffic: an
\* endpoint whose records are all at least 5 minutes apart has no
\* request_spikes record; equivalently every emitted record has
\* actual_rate >= 2.
C16_NoSpikeForSparseTraffic ==
    Analyzed =>
        LET V == WellFormedLogs IN
        /\ \A ep \in EndpointsIn(V) : Sparse(V, GroupOf(V, ep)) => SpikesOf(ep) = {}
        /\ \A n \in DOMAIN report.anomalies.request_spikes :
              report.anomalies.request_spikes[n].actual_rate >= 2

\* C16 as amended: an endpoint whose n records are all at least 5 minutes
\* apart has a request_spikes record iff its first and last record are more
\* than 3 * 5 * n minutes apart, and that record has actual_rate 1; every
\* emitted record has actual_rate >= 1 and belongs to an endpoint whose
\* records span more than 15 minutes.
C16_SparseSpikeOnlyWhenThin ==
    Analyzed =>
        LET V == WellFormedLogs IN
        /\ \A ep \in EndpointsIn(V) :
              LET G == GroupOf(V, ep) IN
              Sparse(V, G) =>
                  /\ (SpikesOf(ep) # {}) <=> (SpanOf(V, G) > 3 * 5 * Cardinality(G))
                  /\ \A n \in SpikesOf(ep) :
                        report.anomalies.request_spikes[n].actual_rate = 1
        /\ \A n \in DOMAIN report.anomalies.request_spikes :
              LET spike == report.anomalies.request_spikes[n] IN
              /\ spike.actual_rate >= 1
              /\ spike.endpoint \in EndpointsIn(V)
              /\ SpanOf(V, GroupOf(V, spike.endpoint)) > 15

\* a report with a spike of actual_rate 1 for an endpoint with three records
\* 10 and 50 minutes apart, and none for an endpoint whose records lie
\* within 15 minutes
C16_Witness ==
    /\ Analyzed
    /\ LET V == WellFormedLogs IN
       /\ \E ep \in EndpointsIn(V) :
             /\ Sparse(V, GroupOf(V, ep))
             /\ Cardinality(GroupOf(V, ep)) = 3
             /\ SpanOf(V, GroupOf(V, ep)) = 60
             /\ \E n \in SpikesOf(ep) : report.anomalies.request_spikes[n].actual_rate = 1
       /\ \E ep \in EndpointsIn(V) :
             /\ SpanOf(V, GroupOf(V, ep)) = 15
             /\ SpikesOf(ep) = {}

====
